---- MODULE Spec2Model ----
(***************************************************************************)
(* The event source persistence row of zenml:                              *)
(*   EventSourceSchema.from_request / to_model / update                    *)
(*   (src/zenml/zen_stores/schemas/event_source_schemas.py)                *)
(* and the request / update / response models it translates                *)
(*   (src/zenml/models/v2/core/event_source.py).                           *)
(***************************************************************************)
EXTENDS Integers, Sequences, FiniteSets, TLC

\* ------------------------------------------------------------------ bounds
\* The wall clock reads 0..MaxClock.
MaxClock == 1
\* An update payload sets at most MaxFields fields explicitly.
MaxFields == 2

\* ----------------------------------------------------------- Python values
\* Every Python value is a record [t |-> type name, v |-> payload].
PyNone == [t |-> "NoneType", v |-> <<>>]
PyBool(b) == [t |-> "bool", v |-> b]
PyInt(n) == [t |-> "int", v |-> n]
PyStr(s) == [t |-> "str", v |-> s]
PyUUID(s) == [t |-> "UUID", v |-> s]
\* list and tuple: v is the sequence of the elements
PyList(xs) == [t |-> "list", v |-> xs]
PyTuple(xs) == [t |-> "tuple", v |-> xs]
\* dict: v is the sequence of <<key, value>> items in insertion order
PyDict(items) == [t |-> "dict", v |-> items]
\* datetime: v is its ISO 8601 text
PyDatetime(iso) == [t |-> "datetime", v |-> iso]
\* an instance of a class no encoder knows
PyObject == [t |-> "object", v |-> <<>>]

\* d[k] for a key the dict holds.
DictGet(d, k) == d.v[CHOOSE i \in 1..Len(d.v) : d.v[i][1] = k][2]

RECURSIVE ValueEq(_, _)
\* Python's == on decoded values: dicts compare by content whatever the order
\* of their items, lists element by element, everything else by type and value.
ValueEq(a, b) ==
    IF a.t # b.t THEN FALSE
    ELSE IF a.t = "dict"
    THEN /\ {a.v[i][1] : i \in 1..Len(a.v)} = {b.v[i][1] : i \in 1..Len(b.v)}
         /\ Len(a.v) = Len(b.v)
         /\ \A i \in 1..Len(a.v) : ValueEq(a.v[i][2], DictGet(b, a.v[i][1]))
    ELSE IF a.t \in {"list", "tuple"}
    THEN /\ Len(a.v) = Len(b.v)
         /\ \A i \in 1..Len(a.v) : ValueEq(a.v[i], b.v[i])
    ELSE a.v = b.v

\* ------------------------------------------------------------------- codec
\* JSON text is a sequence of tokens [k |-> kind, s |-> text].
Punct(s) == [k |-> "punct", s |-> s]
Literal(s) == [k |-> "literal", s |-> s]
\* a number token holds the decimal digits
NumberTok(n) == [k |-> "number", s |-> ToString(n)]
\* a string token holds the text between the quotes
StringTok(s) == [k |-> "string", s |-> s]

\* A failed call (the exception it raises is named in err).
Raise(err) == [ok |-> FALSE, err |-> err]

\* pydantic.json.pydantic_encoder: the `default` hook of from_request. It
\* turns the types pydantic knows into JSON-native values and raises
\* TypeError for the rest.
pydantic_encoder(o) ==
    IF o.t = "datetime" THEN [ok |-> TRUE, value |-> PyStr(o.v)]
    ELSE IF o.t = "UUID" THEN [ok |-> TRUE, value |-> PyStr(o.v)]
    ELSE Raise("TypeError")

\* The elements of a sequence of token sequences, joined by "," tokens.
RECURSIVE JoinComma(_)
JoinComma(parts) ==
    IF parts = <<>> THEN <<>>
    ELSE IF Len(parts) = 1 THEN parts[1]
    ELSE parts[1] \o <<Punct(",")>> \o JoinComma(Tail(parts))

RECURSIVE json_dumps(_, _)
\* json.dumps(obj, sort_keys=False, default=default): the JSON text of obj,
\* or TypeError. default is "pydantic_encoder" or "None" (no hook).
json_dumps(obj, default) ==
    IF obj.t = "NoneType" THEN [ok |-> TRUE, text |-> <<Literal("null")>>]
    ELSE IF obj.t = "bool"
    THEN [ok |-> TRUE, text |-> <<Literal(IF obj.v THEN "true" ELSE "false")>>]
    ELSE IF obj.t = "int" THEN [ok |-> TRUE, text |-> <<NumberTok(obj.v)>>]
    ELSE IF obj.t = "str" THEN [ok |-> TRUE, text |-> <<StringTok(obj.v)>>]
    ELSE IF obj.t \in {"list", "tuple"}
    THEN LET parts == [i \in 1..Len(obj.v) |-> json_dumps(obj.v[i], default)]
         IN  IF \E i \in 1..Len(parts) : ~parts[i].ok THEN Raise("TypeError")
             ELSE [ok |-> TRUE,
                   text |-> <<Punct("[")>>
                            \o JoinComma([i \in 1..Len(parts) |-> parts[i].text])
                            \o <<Punct("]")>>]
    ELSE IF obj.t = "dict"
    THEN LET parts == [i \in 1..Len(obj.v) |-> json_dumps(obj.v[i][2], default)]
         IN  IF \E i \in 1..Len(parts) : ~parts[i].ok THEN Raise("TypeError")
             ELSE [ok |-> TRUE,
                   text |-> <<Punct("{")>>
                            \o JoinComma([i \in 1..Len(parts) |->
                                 <<StringTok(obj.v[i][1]), Punct(":")>>
                                 \o parts[i].text])
                            \o <<Punct("}")>>]
    ELSE IF default = "pydantic_encoder"
    THEN LET r == pydantic_encoder(obj)
         IN  IF r.ok THEN json_dumps(r.value, default) ELSE Raise("TypeError")
    ELSE Raise("TypeError")

\* The decimal digits a number token of the model can hold.
JsonInts == 0..9

\* int(s) for the digits of a number token.
ParseInt(s) == CHOOSE n \in JsonInts : ToString(n) = s

RECURSIVE ParseValue(_)
RECURSIVE ParseElements(_, _)
RECURSIVE ParseMembers(_, _)
\* The JSON decoder: one value from the front of the tokens, and the rest.
ParseValue(ts) ==
    IF ts = <<>> THEN Raise("JSONDecodeError")
    ELSE LET h == Head(ts) IN
      IF h.k = "number"
      THEN [ok |-> TRUE, value |-> PyInt(ParseInt(h.s)), rest |-> Tail(ts)]
      ELSE IF h.k = "string"
      THEN [ok |-> TRUE, value |-> PyStr(h.s), rest |-> Tail(ts)]
      ELSE IF h.k = "literal"
      THEN [ok |-> TRUE,
            value |-> IF h.s = "null" THEN PyNone ELSE PyBool(h.s = "true"),
            rest |-> Tail(ts)]
      ELSE IF h.s = "["
      THEN IF Len(ts) > 1 /\ ts[2] = Punct("]")
           THEN [ok |-> TRUE, value |-> PyList(<<>>), rest |-> Tail(Tail(ts))]
           ELSE ParseElements(Tail(ts), <<>>)
      ELSE IF h.s = "{"
      THEN IF Len(ts) > 1 /\ ts[2] = Punct("}")
           THEN [ok |-> TRUE, value |-> PyDict(<<>>), rest |-> Tail(Tail(ts))]
           ELSE ParseMembers(Tail(ts), <<>>)
      ELSE Raise("JSONDecodeError")

\* The elements of an array after its "[" (acc: the elements read so far).
ParseElements(ts, acc) ==
    LET e == ParseValue(ts) IN
    IF ~e.ok \/ e.rest = <<>> THEN Raise("JSONDecodeError")
    ELSE IF Head(e.rest) = Punct("]")
    THEN [ok |-> TRUE, value |-> PyList(Append(acc, e.value)),
          rest |-> Tail(e.rest)]
    ELSE IF Head(e.rest) = Punct(",")
    THEN ParseElements(Tail(e.rest), Append(acc, e.value))
    ELSE Raise("JSONDecodeError")

\* The members of an object after its "{" (acc: the items read so far). A
\* repeated key keeps its first position and takes the last value.
ParseMembers(ts, acc) ==
    IF Len(ts) < 2 \/ ts[1].k # "string" \/ ts[2] # Punct(":")
    THEN Raise("JSONDecodeError")
    ELSE LET key == ts[1].s
             e == ParseValue(Tail(Tail(ts)))
             items == IF \E i \in 1..Len(acc) : acc[i][1] = key
                      THEN [i \in 1..Len(acc) |->
                              IF acc[i][1] = key THEN <<key, e.value>> ELSE acc[i]]
                      ELSE Append(acc, <<key, e.value>>)
         IN
         IF ~e.ok \/ e.rest = <<>> THEN Raise("JSONDecodeError")
         ELSE IF Head(e.rest) = Punct("}")
         THEN [ok |-> TRUE, value |-> PyDict(items), rest |-> Tail(e.rest)]
         ELSE IF Head(e.rest) = Punct(",")
         THEN ParseMembers(Tail(e.rest), items)
         ELSE Raise("JSONDecodeError")

\* json.loads(text): the value of a JSON text, JSONDecodeError when the text
\* is not exactly one value.
json_loads(text) ==
    LET r == ParseValue(text) IN
    IF r.ok /\ r.rest = <<>> THEN [ok |-> TRUE, value |-> r.value]
    ELSE Raise("JSONDecodeError")

\* str.encode("utf-8") and bytes.decode(): text to bytes and back.
Utf8Encode(text) == [codec |-> "utf-8", data |-> text]
Utf8Decode(bytes) ==
    IF bytes.codec = "utf-8" THEN [ok |-> TRUE, text |-> bytes.data]
    ELSE Raise("UnicodeDecodeError")

\* base64.b64encode / base64.b64decode: the text-safe envelope of the blob.
b64encode(bytes) == [codec |-> "base64", data |-> bytes]
b64decode(blob) ==
    IF blob.codec = "base64" THEN [ok |-> TRUE, bytes |-> blob.data]
    ELSE Raise("binascii.Error")

\* ------------------------------------------------------------------ models
\* The fields of EventSourceUpdate in declaration order, the inherited ones
\* first: user and workspace of the workspace-scoped request, then the fields
\* of EventSourceRequest, then rotate_secret. update.dict() yields its items
\* in this order.
FieldOrder ==
    <<"user", "workspace", "name", "flavor", "plugin_type", "plugin_subtype",
      "description", "configuration", "rotate_secret">>

FieldNames == {FieldOrder[i] : i \in 1..Len(FieldOrder)}

\* The configurations a caller supplies.
\* Scenario A of the specification: an integer and a list of strings.
ConfigA ==
    PyDict(<< <<"threshold", PyInt(5)>>,
              <<"labels", PyList(<<PyStr("a"), PyStr("b")>>)>> >>)
\* the same keys with other JSON values: a string of digits and a nested map
ConfigB ==
    PyDict(<< <<"labels", PyDict(<< <<"x", PyBool(TRUE)>>, <<"y", PyNone>> >>)>>,
              <<"threshold", PyStr("5")>> >>)
ConfigEmpty == PyDict(<<>>)
\* a value only the pydantic encoder serializes
ConfigDatetime == PyDict(<< <<"since", PyDatetime("2024-01-01T00:00:00")>> >>)
\* a value no encoder serializes
ConfigObject == PyDict(<< <<"handler", PyObject>> >>)

Configs == {ConfigA, ConfigB, ConfigEmpty, ConfigDatetime, ConfigObject}

RECURSIVE JsonCompatible(_)
\* A value made of JSON's own types only: null, booleans, numbers, strings,
\* lists and maps with string keys.
JsonCompatible(x) ==
    IF x.t \in {"NoneType", "bool", "int", "str"} THEN TRUE
    ELSE IF x.t = "list" THEN \A i \in 1..Len(x.v) : JsonCompatible(x.v[i])
    ELSE IF x.t = "dict" THEN \A i \in 1..Len(x.v) : JsonCompatible(x.v[i][2])
    ELSE FALSE

\* EventSourceRequest: the create payload. It carries the workspace and the
\* user of the workspace-scoped request it extends.
EventSourceRequest ==
    [user : {PyUUID("u1"), PyUUID("u2")},
     workspace : {PyUUID("w1"), PyUUID("w2")},
     name : {PyStr("n1")},
     flavor : {PyStr("f1")},
     plugin_type : {PyStr("pt1")},
     plugin_subtype : {PyStr("ps1")},
     description : {PyStr("")},
     configuration : Configs]

\* The value of an EventSourceUpdate field that was not set: every field of
\* the update model is optional; description keeps its declared default.
FieldDefault(f) == IF f = "description" THEN PyStr("") ELSE PyNone

\* The values a caller sets a field of an update to. None is accepted for
\* every field.
FieldValues(f) ==
    CASE f = "user" -> {PyNone, PyUUID("u2")}
      [] f = "workspace" -> {PyNone, PyUUID("w2")}
      [] f = "name" -> {PyNone, PyStr("n2")}
      [] f = "flavor" -> {PyStr("f2")}
      [] f = "plugin_type" -> {PyStr("pt2")}
      [] f = "plugin_subtype" -> {PyStr("ps2")}
      [] f = "description" -> {PyStr(""), PyStr("d2")}
      [] f = "configuration" -> Configs \cup {PyNone}
      [] f = "rotate_secret" -> {PyBool(TRUE)}

\* The sets of fields an update sets explicitly (__fields_set__).
FieldSets == {fs \in SUBSET FieldNames : Cardinality(fs) <= MaxFields}

\* EventSourceUpdate: the patch payload. Every field of the request is
\* optional, rotate_secret is added, and fields_set tells which fields the
\* caller set.
EventSourceUpdate ==
    {u \in [fields_set : FieldSets,
            user : FieldValues("user") \cup {FieldDefault("user")},
            workspace : FieldValues("workspace") \cup {FieldDefault("workspace")},
            name : FieldValues("name") \cup {FieldDefault("name")},
            flavor : FieldValues("flavor") \cup {FieldDefault("flavor")},
            plugin_type :
                FieldValues("plugin_type") \cup {FieldDefault("plugin_type")},
            plugin_subtype :
                FieldValues("plugin_subtype") \cup {FieldDefault("plugin_subtype")},
            description :
                FieldValues("description") \cup {FieldDefault("description")},
            configuration :
                FieldValues("configuration") \cup {FieldDefault("configuration")},
            rotate_secret :
                FieldValues("rotate_secret") \cup {FieldDefault("rotate_secret")}] :
        \A f \in FieldNames :
            IF f \in u.fields_set THEN u[f] \in FieldValues(f)
            ELSE u[f] = FieldDefault(f)}

\* Mutant of SetFields: update.dict() without exclude_unset yields every
\* field, the unset ones with their defaults.
SetFieldsAll(u, i) == SubSeq(FieldOrder, i, Len(FieldOrder))

\* update.dict(exclude_unset=True).items(): the names of the fields set, in
\* declaration order.
RECURSIVE SetFields(_, _)
SetFields(u, i) ==
    IF i > Len(FieldOrder) THEN <<>>
    ELSE IF FieldOrder[i] \in u.fields_set
    THEN <<FieldOrder[i]>> \o SetFields(u, i + 1)
    ELSE SetFields(u, i + 1)

\* ---------------------------------------------------------------- the row
\* Mutant of from_request: the user of the request is not passed on.
from_request_without_user(request) ==
    LET text == json_dumps(request.configuration, "pydantic_encoder") IN
    IF ~text.ok THEN Raise(text.err)
    ELSE [ok |-> TRUE,
          row |-> [workspace_id |-> request.workspace,
                   user_id |-> PyNone,
                   flavor |-> request.flavor,
                   plugin_type |-> request.plugin_type,
                   plugin_subtype |-> request.plugin_subtype,
                   name |-> request.name,
                   description |-> request.description,
                   configuration |-> b64encode(Utf8Encode(text.text))]]

\* EventSourceSchema.from_request: the column values of a new row. The
\* workspace and the user are read from the request; the configuration is
\* encoded with the pydantic encoder as the default hook.
from_request(request) ==
    LET text == json_dumps(request.configuration, "pydantic_encoder") IN
    IF ~text.ok THEN Raise(text.err)
    ELSE [ok |-> TRUE,
          row |-> [workspace_id |-> request.workspace,
                   user_id |-> request.user,
                   flavor |-> request.flavor,
                   plugin_type |-> request.plugin_type,
                   plugin_subtype |-> request.plugin_subtype,
                   name |-> request.name,
                   description |-> request.description,
                   configuration |-> b64encode(Utf8Encode(text.text))]]

\* The storage layer's part of a creation: it assigns the id and both
\* timestamps, and the relationships workspace and user resolve through the
\* foreign keys.
Insert(columns, now) ==
    [id |-> PyUUID("e1"),
     created |-> now,
     updated |-> now,
     workspace_id |-> columns.workspace_id,
     workspace |-> [t |-> "WorkspaceSchema", v |-> columns.workspace_id.v],
     user_id |-> columns.user_id,
     user |-> IF columns.user_id = PyNone THEN PyNone
              ELSE [t |-> "UserSchema", v |-> columns.user_id.v],
     flavor |-> columns.flavor,
     plugin_type |-> columns.plugin_type,
     plugin_subtype |-> columns.plugin_subtype,
     name |-> columns.name,
     description |-> columns.description,
     configuration |-> columns.configuration]

\* The relationship attributes of the row (Relationship(...) in the schema).
Relationships == {"workspace", "user"}

\* setattr(self, field, value) of update's last branch. A column takes any
\* value. A relationship attribute takes None (the relationship is cleared)
\* and rejects a value that is not a mapped row, such as the id an update
\* payload carries.
setattr(self, field, value) ==
    IF field \in Relationships /\ value # PyNone THEN Raise("AttributeError")
    ELSE [ok |-> TRUE, row |-> [self EXCEPT ![field] = value]]

\* Mutant of IgnoredFields: only rotate_secret is skipped.
IgnoredFieldsSecretOnly == {"rotate_secret"}

\* The fields update skips: its `pass` branch.
IgnoredFields == {"flavor", "plugin_type", "plugin_subtype", "rotate_secret"}

\* Mutant of update_configuration: an empty configuration is taken for "no
\* configuration" and the old blob is kept.
update_configuration_if_truthy(self, update) ==
    LET text == json_dumps(update.configuration, "None") IN
    IF ~text.ok THEN Raise(text.err)
    ELSE IF update.configuration.v = <<>> THEN [ok |-> TRUE, row |-> self]
    ELSE [ok |-> TRUE,
          row |-> [self EXCEPT
                     !.configuration = b64encode(Utf8Encode(text.text))]]

\* The configuration branch of update: the blob of update.configuration,
\* encoded by json.dumps with no default hook.
update_configuration(self, update) ==
    LET text == json_dumps(update.configuration, "None") IN
    IF ~text.ok THEN Raise(text.err)
    ELSE [ok |-> TRUE,
          row |-> [self EXCEPT
                     !.configuration = b64encode(Utf8Encode(text.text))]]

\* Mutant of Stamp: the timestamp is written to created.
StampCreated(self, now) == [self EXCEPT !.created = now]

\* self.updated = datetime.utcnow()
Stamp(self, now) == [self EXCEPT !.updated = now]

RECURSIVE UpdateLoop(_, _, _)
\* The loop of update over the fields still to process. It mutates self in
\* place: when a step raises, the writes made before it stay on self.
UpdateLoop(self, update, fields) ==
    IF fields = <<>> THEN [ok |-> TRUE, err |-> "", row |-> self]
    ELSE LET field == Head(fields)
             r == IF field = "configuration"
                  THEN update_configuration(self, update)
                  ELSE IF field \in IgnoredFields
                  THEN [ok |-> TRUE, row |-> self]
                  ELSE setattr(self, field, update[field])
         IN  IF r.ok THEN UpdateLoop(r.row, update, Tail(fields))
             ELSE [ok |-> FALSE, err |-> r.err, row |-> self]

\* EventSourceSchema.update: the loop, then the timestamp. now is what
\* datetime.utcnow() returns.
update(self, u, now) ==
    LET r == UpdateLoop(self, u, SetFields(u, 1)) IN
    IF r.ok THEN [ok |-> TRUE, err |-> "", row |-> Stamp(r.row, now)]
    ELSE r

\* EventSourceResponseBody(...): the body of a response. self.user is
\* resolved when the row has a user.
ResponseBody(self) ==
    [created |-> self.created,
     updated |-> self.updated,
     user |-> IF self.user # PyNone
              THEN [t |-> "UserResponse", v |-> self.user.v]
              ELSE PyNone,
     flavor |-> self.flavor,
     plugin_type |-> self.plugin_type,
     plugin_subtype |-> self.plugin_subtype]

\* json.loads(base64.b64decode(self.configuration).decode())
DecodeConfiguration(blob) ==
    LET bytes == b64decode(blob) IN
    IF ~bytes.ok THEN Raise(bytes.err)
    ELSE LET text == Utf8Decode(bytes.bytes) IN
         IF ~text.ok THEN Raise(text.err)
         ELSE json_loads(text.text)

\* EventSourceSchema.to_model. The result tells whether the call returned,
\* the response, and how often the call decoded the blob and resolved the
\* workspace. The response models validate their fields: name and
\* description are strings, configuration is a map.
to_model(self, hydrate) ==
    LET body == ResponseBody(self)
        failed(err, resolved, decoded) ==
            [ok |-> FALSE, err |-> err, response |-> PyNone,
             resolve_calls |-> resolved, decode_calls |-> decoded]
        returned(metadata, resolved, decoded) ==
            IF self.name.t # "str" THEN failed("ValidationError", resolved, decoded)
            ELSE [ok |-> TRUE, err |-> "",
                  response |-> [id |-> self.id, name |-> self.name,
                                body |-> body, metadata |-> metadata],
                  resolve_calls |-> resolved, decode_calls |-> decoded]
    IN
    IF ~hydrate THEN returned(PyNone, 0, 0)
    ELSE IF self.workspace = PyNone THEN failed("AttributeError", 1, 0)
    ELSE LET decoded == DecodeConfiguration(self.configuration) IN
         IF ~decoded.ok THEN failed(decoded.err, 1, 1)
         ELSE IF self.description.t # "str" \/ decoded.value.t # "dict"
         THEN failed("ValidationError", 1, 1)
         ELSE returned([workspace |-> [t |-> "WorkspaceResponse",
                                       v |-> self.workspace.v],
                        description |-> self.description,
                        configuration |-> decoded.value], 1, 1)

\* ------------------------------------------------------------------- state
VARIABLES
    row,        \* the EventSourceSchema row, PyNone before it is created
    clock,      \* what datetime.utcnow() reads
    creation,   \* history: the row as it was created (its blob left out)
    supplied,   \* history: the configuration most recently supplied by a
                \* creation or update that succeeded, and by which of them
    last        \* history: the last call, its arguments and its outcome

vars == <<row, clock, creation, supplied, last>>

\* The calling scopes: the workspace and the owner of the caller.
Scopes ==
    [workspace : {PyUUID("w1"), PyUUID("w2")}, owner : {PyUUID("u1")}]

Init ==
    /\ row = PyNone
    /\ clock = 0
    /\ creation = PyNone
    /\ supplied = PyNone
    /\ last = [op |-> "none"]

\* No call is in progress and the outcome of the last one has been taken.
Idle == last.op = "none"

\* A caller in the scope `scope` creates the row from `request`.
Create(request, scope) ==
    /\ Idle
    /\ row = PyNone
    /\ LET r == from_request(request) IN
       /\ last' = [op |-> "from_request", ok |-> r.ok,
                   request |-> request, scope |-> scope]
       /\ IF r.ok
          THEN /\ row' = Insert(r.row, clock)
               /\ creation' = [Insert(r.row, clock) EXCEPT
                                 !.configuration = PyNone]
               /\ supplied' = [configuration |-> request.configuration,
                               by |-> "from_request"]
          ELSE UNCHANGED <<row, creation, supplied>>
    /\ UNCHANGED clock

\* A caller applies the update `u` to the row. A call that raises leaves the
\* row object as the loop had mutated it.
Update(u) ==
    /\ Idle
    /\ row # PyNone
    /\ LET r == update(row, u, clock) IN
       /\ row' = r.row
       /\ supplied' = IF r.ok /\ "configuration" \in u.fields_set
                      THEN [configuration |-> u.configuration, by |-> "update"]
                      ELSE supplied
       /\ last' = [op |-> "update", ok |-> r.ok, update |-> u, before |-> row]
    /\ UNCHANGED <<clock, creation>>

\* A caller reads the row at the hydration level `hydrate`.
ToModel(hydrate) ==
    /\ Idle
    /\ row # PyNone
    /\ LET r == to_model(row, hydrate) IN
       last' = [op |-> "to_model", ok |-> r.ok, hydrate |-> hydrate,
                response |-> r.response,
                resolve_calls |-> r.resolve_calls,
                decode_calls |-> r.decode_calls]
    /\ UNCHANGED <<row, clock, creation, supplied>>

\* The caller takes the outcome of the last call (its record in the history
\* is closed; the row is unchanged).
Return ==
    /\ ~Idle
    /\ last' = [op |-> "none"]
    /\ UNCHANGED <<row, clock, creation, supplied>>

\* The wall clock advances between two calls.
Tick ==
    /\ Idle
    /\ clock < MaxClock
    /\ clock' = clock + 1
    /\ UNCHANGED <<row, creation, supplied, last>>

\* The wall clock is set back between two calls (an adjustment of the
\* system time).
ClockSetBack ==
    /\ Idle
    /\ clock > 0
    /\ clock' \in 0..(clock - 1)
    /\ UNCHANGED <<row, creation, supplied, last>>

Next ==
    \/ \E request \in EventSourceRequest, scope \in Scopes :
          Create(request, scope)
    \/ \E u \in EventSourceUpdate : Update(u)
    \/ \E hydrate \in BOOLEAN : ToModel(hydrate)
    \/ Return
    \/ Tick
    \/ ClockSetBack

Spec == Init /\ [][Next]_vars

\* ------------------------------------------------------------------ claims
\* The last call was an update / an update that returned.
Updated == last.op = "update"
UpdatedOk == last.op = "update" /\ last.ok

\* C1: after any sequence of updates, also ones that set flavor, plugin_type
\* or plugin_subtype to other values, the row's flavor, plugin_type and
\* plugin_subtype are the ones it was created with.
C1_PluginIdentityImmutable ==
    row # PyNone =>
        /\ row.flavor = creation.flavor
        /\ row.plugin_type = creation.plugin_type
        /\ row.plugin_subtype = creation.plugin_subtype

\* An update that set all of flavor and plugin_type to other values returned.
C1_Witness ==
    /\ UpdatedOk
    /\ last.update.fields_set = {"flavor", "plugin_type"}
    /\ last.update.flavor # last.before.flavor
    /\ last.update.plugin_type # last.before.plugin_type

WrittenVerbatim == {"user", "workspace", "name", "description"}

\* C3: an update is applied as a whole or not at all: a call that returns has
\* written every field it set and stamped updated, and a call that raises
\* leaves every field of the row as it was.
C3_UpdateAllOrNothing ==
    Updated =>
        IF last.ok
        THEN /\ \A f \in last.update.fields_set \cap WrittenVerbatim :
                    row[f] = last.update[f]
             /\ row.updated = clock
        ELSE row = last.before

\* C4: every update that returns leaves updated strictly greater than it was.
C4_UpdatedStrictlyIncreases ==
    UpdatedOk => row.updated > last.before.updated

\* C5: the stored configuration decodes to a value equal to the most recently
\* supplied configuration, for every supplied map of JSON-compatible values,
\* and a hydrated response carries that value.
C5_ConfigurationRoundTrip ==
    (row # PyNone /\ supplied.configuration.t = "dict"
                  /\ JsonCompatible(supplied.configuration)) =>
        /\ DecodeConfiguration(row.configuration).ok
        /\ ValueEq(DecodeConfiguration(row.configuration).value,
                   supplied.configuration)
        /\ (last.op = "to_model" /\ last.ok /\ last.hydrate) =>
               ValueEq(last.response.metadata.configuration,
                       supplied.configuration)

\* A hydrated read returned the map of an update that replaced a map with
\* other keys' values.
C5_Witness ==
    /\ last.op = "to_model" /\ last.ok /\ last.hydrate
    /\ supplied.by = "update"
    /\ supplied.configuration = ConfigB
    /\ last.response.metadata.configuration.v =
           <<ConfigB.v[1], ConfigB.v[2]>>

\* C6: a read returns a response with its body, with metadata exactly when
\* hydrate is set; without hydrate it returns for every row and neither
\* decodes the blob nor resolves the workspace; with hydrate it does both.
C6_HydrationSplit ==
    last.op = "to_model" =>
        /\ last.ok =>
              /\ last.response.body # PyNone
              /\ (last.response.metadata # PyNone) <=> last.hydrate
        /\ ~last.hydrate =>
              last.ok /\ last.decode_calls = 0 /\ last.resolve_calls = 0
        /\ last.hydrate =>
              last.decode_calls = 1 /\ last.resolve_calls = 1

\* C7: after any sequence of updates, also ones that set the inherited
\* workspace or user field, the row's id, created and workspace_id are the
\* ones it was created with.
C7_IdentityImmutable ==
    row # PyNone =>
        /\ row.id = creation.id
        /\ row.created = creation.created
        /\ row.workspace_id = creation.workspace_id

\* An update that set the workspace and the user returned, at another clock
\* reading than the creation's.
C7_Witness ==
    /\ UpdatedOk
    /\ last.update.fields_set = {"workspace", "user"}
    /\ clock # row.created

\* C8: an update that returns leaves every stored field it did not set as it
\* was, apart from updated, which takes the clock's reading; it writes every
\* field it set, other than configuration, flavor, plugin_type,
\* plugin_subtype and rotate_secret, with the supplied value.
C8_FieldMaskedPatch ==
    UpdatedOk =>
        /\ \A f \in DOMAIN row \ {"updated"} :
              IF f \in last.update.fields_set
              THEN f \in {"configuration", "flavor", "plugin_type",
                          "plugin_subtype", "rotate_secret"}
                   \/ row[f] = last.update[f]
              ELSE row[f] = last.before[f]
        /\ row.updated = clock

\* An update that set only the description changed it, and left the name,
\* the flavor and the blob as they were.
C8_Witness ==
    /\ UpdatedOk
    /\ last.update.fields_set = {"description"}
    /\ row.description = last.update.description
    /\ row.description # last.before.description
    /\ row.name = last.before.name
    /\ row.flavor = last.before.flavor
    /\ row.configuration = last.before.configuration
    /\ row.updated # last.before.updated

\* C9: an update that sets only the configuration, to a map from_request
\* encodes, returns and stores the blob from_request stores for that map.
C9_SameEncoderOnEveryWrite ==
    (Updated /\ last.update.fields_set = {"configuration"}
             /\ last.update.configuration.t = "dict"
             /\ from_request([last.update EXCEPT !.fields_set = {}]).ok) =>
        /\ last.ok
        /\ row.configuration =
             from_request([last.update EXCEPT !.fields_set = {}])
                 .row.configuration

\* C10: the blob of a row written by from_request and updates decodes to a
\* map.
C10_BlobDecodesToMap ==
    row # PyNone =>
        /\ DecodeConfiguration(row.configuration).ok
        /\ DecodeConfiguration(row.configuration).value.t = "dict"

====
